---- MODULE Spec2Model ----
(***************************************************************************)
(* Resume optimisation job orchestrator (backend/routes/optimize.py) with  *)
(* its collaborators: the in-process tier of the cache service, the        *)
(* LaTeX structure validator, the PDF generator and the artifact download  *)
(* route.                                                                  *)
(*                                                                         *)
(* Scheduling: every endpoint and every background task is a coroutine on  *)
(* one event loop.  The cache service is in the state its constructor      *)
(* leaves it in (redis_connected = False), so its awaits never suspend; a  *)
(* job's background task suspends at the generation call (asyncio.gather)  *)
(* and at the compiler subprocess.  One action = one run of a coroutine    *)
(* between two suspension points.                                          *)
(***************************************************************************)
EXTENDS Integers, Sequences, FiniteSets, TLC

\* ---------------------------------------------------------------- bounds
MaxJobs == 2

JobIds == 1..MaxJobs

\* ---------------------------------------------------------------- values
\* absent values, one per kind of value so that equals stays well-typed
NoRec == [absent |-> "record"]
NoReq == [absent |-> "request"]
NoResult == [absent |-> "result"]
NoText == [absent |-> "text"]
NoError == <<>>
NoPath == <<>>
NoUrl == <<>>
\* no endpoint answered in the last step (a background task ran)
NoResp == [op |-> "none"]

Anchors == {"documentclass", "begin_document", "end_document"}

\* A text is what the structure checks see of it: whether it is wrapped in
\* a markdown fence and which mandatory anchors its patterns match.
ValidText == [fenced |-> FALSE, anchors |-> Anchors]
FencedValidText == [fenced |-> TRUE, anchors |-> Anchors]
NoEndText == [fenced |-> FALSE, anchors |-> Anchors \ {"end_document"}]

\* documents a caller may submit
Docs == {ValidText, NoEndText}
\* texts the generation service may return
LlmTexts == {FencedValidText, NoEndText}

\* the generation call raising instead of returning a text
LlmRaises == [raises |-> "generation"]

\* company labels, as character sequences
SafeLabel == <<"a">>
SlashLabel == <<"a", "/", "b">>
Labels == {SafeLabel, SlashLabel}

UnsafeChars == {"<", ">", ":", "\"", "/", "\\", "|", "?", "*"}

\* ------------------------------------------------------ tex_parser.py
\* a structure check that forgets the end marker
ValidateStructureNoEnd(t) ==
  (IF "documentclass" \in t.anchors THEN <<>> ELSE <<"Missing documentclass declaration">>)
  \o (IF "begin_document" \in t.anchors THEN <<>> ELSE <<"Missing begin{document}">>)

\* LaTeXParser._validate_structure: one error per missing anchor, in order
ValidateStructure(t) ==
  (IF "documentclass" \in t.anchors THEN <<>> ELSE <<"Missing documentclass declaration">>)
  \o (IF "begin_document" \in t.anchors THEN <<>> ELSE <<"Missing begin{document}">>)
  \o (IF "end_document" \in t.anchors THEN <<>> ELSE <<"Missing end{document}">>)

\* LaTeXParser.parse_latex(...).is_valid
ParseIsValid(t) == Len(ValidateStructure(t)) = 0

\* LaTeXParser.clean_latex_content: strips the fence, keeps the anchors
clean_latex_content(t) == [t EXCEPT !.fenced = FALSE]

\* a result validation that accepts every generated text
ValidateOptimizationAcceptsAll(original, optimized) == TRUE

\* LaTeXParser.validate_optimization_result(...)['is_valid']
ValidateOptimizationIsValid(original, optimized) == ParseIsValid(optimized)

\* ---------------------------------------------------- pdf_generator.py
RECURSIVE ReplaceUnsafe(_)
ReplaceUnsafe(s) ==
  IF s = <<>> THEN <<>>
  ELSE <<IF Head(s) \in UnsafeChars \cup {" "} THEN "_" ELSE Head(s)>>
       \o ReplaceUnsafe(Tail(s))

RECURSIVE StripEdges(_)
StripEdges(s) ==
  IF s = <<>> THEN <<>>
  ELSE IF Head(s) \in {".", "_"} THEN StripEdges(Tail(s))
  ELSE IF s[Len(s)] \in {".", "_"} THEN StripEdges(SubSeq(s, 1, Len(s) - 1))
  ELSE s

\* PDFGenerator._sanitize_filename
sanitize_filename(label) ==
  LET r == StripEdges(ReplaceUnsafe(label))
  IN IF r = <<>> THEN <<"r", "e", "s", "u", "m", "e">> ELSE r

\* --------------------------------------------------------- file system
\* a file name that contains "/" names a file in a sub-directory that was
\* never created: open(..., 'w') raises FileNotFoundError
HasSeparator(label) == \E i \in 1..Len(label) : label[i] = "/"

\* PDFGenerator.compile_latex_to_pdf: final_pdf_path
FinalPdfPath(label) == <<"tmp_pdf", sanitize_filename(label)>>
\* process_optimization_background: persistent storage names
FailedTexPath(label, j) == <<"failed_tex", label, j>>
LatexSavePath(label, j) == <<"tex", label, j>>
PdfSavePath(label, j) == <<"pdf", label, j>>

\* the file system maps the paths that exist to their content; the content
\* is the text or artifact built from job j's text
NoFiles == [p \in {} |-> <<>>]
FileOf(j) == <<j>>

\* pathlib.Path.exists
FileExists(fs, p) == p \in DOMAIN fs
\* open(p, 'w').write(c), shutil.copy2
WriteFile(fs, p, c) == [q \in DOMAIN fs \cup {p} |-> IF q = p THEN c ELSE fs[q]]
\* pathlib.Path.unlink
Unlink(fs, p) == [q \in DOMAIN fs \ {p} |-> fs[q]]

\* ------------------------------------------------------ cache_service.py
\* Strings are sequences of symbols.  CacheService.generate_cache_key: the
\* MD5 digest of the string; the digest is taken to be collision-free, so
\* a key stands for exactly the string that was hashed.
generate_cache_key(data) == <<"md5", data>>

\* generate_optimization_key: combined, the f-string that joins the fields
Combined(tex_content, job_description, llm_provider, llm_model) ==
  tex_content \o <<"|">> \o job_description \o <<"|">> \o llm_provider
  \o <<"|">> \o llm_model

\* CacheService.generate_optimization_key
generate_optimization_key(tex_content, job_description, llm_provider, llm_model) ==
  generate_cache_key(Combined(tex_content, job_description, llm_provider, llm_model))

\* the orchestrator's documents are opaque: each is a one-symbol string
DocString(doc) == <<doc>>
JobDesc == <<"jd">>
Provider == <<"openai">>
Model == <<"m">>

Keys == {generate_optimization_key(DocString(d), JobDesc, Provider, Model) : d \in Docs}

\* ------------------------------------------------------------- state
VARIABLES
  store,        \* optimization_status_store: job id -> record
  req,          \* the request a job's background task holds while it runs
  pc,           \* position of each job's coroutine
  optimized,    \* task local optimized_tex while the task is suspended
  pdf_error,    \* text of the exception the compiler raised for the job, if any
  resultCache,  \* memory_cache entries under optimization keys
  pdfCache,     \* memory_cache entries under "pdf_result:<id>"
  files,        \* file system: existing path -> FileOf(job)
  history,      \* rows of the optimization history table
  resp,         \* response of the last endpoint call
  unit          \* a service object driven by a direct caller, see below

jobVars == <<store, req, pc, optimized, pdf_error, resultCache, pdfCache, files, history, resp>>
vars == <<jobVars, unit>>

\* no service is driven directly while the orchestrator runs
NoUnit == [service |-> "none"]

\* no job was submitted yet
JobsConstructed ==
  /\ store = [j \in JobIds |-> NoRec]
  /\ req = [j \in JobIds |-> NoReq]
  /\ pc = [j \in JobIds |-> "unused"]
  /\ optimized = [j \in JobIds |-> NoText]
  /\ pdf_error = [j \in JobIds |-> NoError]
  /\ resultCache = [k \in Keys |-> NoResult]
  /\ pdfCache = [j \in JobIds |-> NoPath]
  /\ files = NoFiles
  /\ history = {}
  /\ resp = NoResp

Init == JobsConstructed /\ unit = NoUnit

\* ------------------------------------------------- record construction
\* optimize_resume: the record written at submission
NewRecord(doc, label) ==
  [status |-> "processing", progress |-> 0,
   message |-> "Starting optimization...",
   error |-> NoError, result |-> NoResult, cached |-> "None",
   completed_at |-> FALSE,
   company_name |-> label, original_tex |-> doc]

\* the generation result as stored in the cache and merged into results
EnhancedResult(t) ==
  [optimized_tex |-> t, has_raw_latex |-> FALSE,
   latex_download_url |-> NoUrl, pdf_compilation_error |-> NoError,
   pdf_info |-> FALSE]

LatexDownloadUrl(j) == <<"/optimize", j, "download/latex">>

ErrInvalidLatex(doc) == <<"Invalid LaTeX">> \o ValidateStructure(doc)
ErrGeneratedInvalid == <<"Generated LaTeX is invalid">>
ErrPdfGenerationFailed == <<"PDF generation failed">>
ErrOverleaf(e) == <<"PDF cannot be compiled on this server due to resource limitations. Please use Overleaf.com">> \o e
MsgOverleaf == "PDF compilation failed due to limited server resources. Please copy the LaTeX code below and paste it into Overleaf.com to generate your PDF."
ErrCompile == <<"PDF compilation failed">>
ErrLlm == <<"LLM request failed">>
ErrNameStartTime == <<"name 'start_time' is not defined">>
ErrFileNotFound == <<"No such file or directory">>
ErrKeyError == <<"KeyError">>

\* a cache key that is derived from the fixed parts of the request only
KeyOfWithoutDocument(r) == generate_optimization_key(DocString(NoEndText), JobDesc, Provider, Model)

\* the cache key of a request
KeyOf(r) == generate_optimization_key(DocString(r.tex_content), JobDesc, Provider, Model)

\* the requests callers submit: a document and a company label
Requests ==
  {[tex_content |-> ValidText, company_name |-> SafeLabel],
   [tex_content |-> ValidText, company_name |-> SlashLabel],
   [tex_content |-> NoEndText, company_name |-> SafeLabel]}

\* uuid4: an id no earlier submission has received
IsFresh(j) == pc[j] = "unused" /\ \A i \in JobIds : i < j => pc[i] # "unused"

\* a cache hit that stores the cached result but leaves the job running
CachedRecordStillProcessing(doc, label, cached_result) ==
  [NewRecord(doc, label) EXCEPT
     !.progress = 20,
     !.message = "Optimization completed (from cache)",
     !.result = cached_result, !.cached = "True"]

\* optimize_resume: the record of a job served from the result cache
CachedRecord(doc, label, cached_result) ==
  [NewRecord(doc, label) EXCEPT
     !.status = "completed", !.progress = 100,
     !.message = "Optimization completed (from cache)",
     !.result = cached_result, !.cached = "True"]

\* ------------------------------------------------------- optimize_resume
Submit(j, doc, label) ==
  /\ UNCHANGED unit
  /\ IsFresh(j)
  /\ req' = IF ParseIsValid(doc)
            THEN [req EXCEPT ![j] = [tex_content |-> doc, company_name |-> label]]
            ELSE req
  /\ IF ~ParseIsValid(doc)
     THEN /\ store' = [store EXCEPT ![j] =
                 [NewRecord(doc, label) EXCEPT !.status = "failed",
                                               !.error = ErrInvalidLatex(doc)]]
          /\ pc' = [pc EXCEPT ![j] = "notask"]
          /\ resp' = [op |-> "submit", code |-> 400,
                      detail |-> <<"Invalid LaTeX content">> \o ValidateStructure(doc)]
     ELSE LET key == generate_optimization_key(DocString(doc), JobDesc, Provider, Model)
              cached_result == resultCache[key]
          IN IF cached_result # NoResult
             THEN /\ store' = [store EXCEPT ![j] = CachedRecord(doc, label, cached_result)]
                  /\ pc' = [pc EXCEPT ![j] = "pdf_compile"]
                  /\ resp' = [op |-> "submit", code |-> 200,
                              optimization_id |-> j, status |-> "completed"]
             ELSE /\ store' = [store EXCEPT ![j] =
                         [NewRecord(doc, label) EXCEPT
                            !.progress = 20,
                            !.message = "LaTeX validated, checking cache..."]]
                  /\ pc' = [pc EXCEPT ![j] = "start"]
                  /\ resp' = [op |-> "submit", code |-> 200,
                              optimization_id |-> j, status |-> "processing"]
  /\ UNCHANGED <<optimized, pdf_error, resultCache, pdfCache, files, history>>

\* ------------------------------------- process_optimization_background
\* an outermost handler that also resets the progress of the failed job
OuterExceptResetsProgress(st, j, e) ==
  IF st[j] = NoRec
  THEN [store |-> st, pc |-> "crashed"]
  ELSE [store |-> [st EXCEPT ![j].status = "failed", ![j].error = e,
                             ![j].progress = 0],
        pc |-> "done"]

\* the handler "except Exception as e" at the end of the task: it indexes
\* the job table again, so on a deleted record it raises KeyError itself
OuterExcept(st, j, e) ==
  IF st[j] = NoRec
  THEN [store |-> st, pc |-> "crashed"]
  ELSE [store |-> [st EXCEPT ![j].status = "failed", ![j].error = e],
        pc |-> "done"]

\* a task start that publishes the submitted text as a provisional result
TaskStartWithResult(j) ==
  /\ UNCHANGED unit
  /\ pc[j] = "start"
  /\ IF store[j] = NoRec
     THEN LET h == OuterExcept(store, j, ErrKeyError)
          IN /\ store' = h.store
             /\ pc' = [pc EXCEPT ![j] = h.pc]
     ELSE /\ store' = [store EXCEPT ![j].progress = 40,
                                    ![j].message = "Calling LLM API...",
                                    ![j].result = EnhancedResult(req[j].tex_content)]
          /\ pc' = [pc EXCEPT ![j] = "gen"]
  /\ req' = IF pc'[j] = "gen" THEN req ELSE [req EXCEPT ![j] = NoReq]
  /\ resp' = NoResp
  /\ UNCHANGED <<optimized, pdf_error, resultCache, pdfCache, files, history>>

\* from the start of the task to the suspension in asyncio.gather
TaskStart(j) ==
  /\ UNCHANGED unit
  /\ pc[j] = "start"
  /\ IF store[j] = NoRec
     THEN LET h == OuterExcept(store, j, ErrKeyError)
          IN /\ store' = h.store
             /\ pc' = [pc EXCEPT ![j] = h.pc]
     ELSE /\ store' = [store EXCEPT ![j].progress = 40,
                                    ![j].message = "Calling LLM API..."]
          /\ pc' = [pc EXCEPT ![j] = "gen"]
  /\ req' = IF pc'[j] = "gen" THEN req ELSE [req EXCEPT ![j] = NoReq]
  /\ resp' = NoResp
  /\ UNCHANGED <<optimized, pdf_error, resultCache, pdfCache, files, history>>

\* a cache write that stores nothing
CacheOptimizationResultDropped(cache, key, result) == cache

\* CacheService.cache_optimization_result with the in-process tier only
cache_optimization_result(cache, key, result) == [cache EXCEPT ![key] = result]

\* from the return of the generation call to the suspension in the compiler
GenReturn(j, out) ==
  /\ UNCHANGED unit
  /\ pc[j] = "gen"
  /\ IF out = LlmRaises
     THEN LET h == OuterExcept(store, j, ErrLlm)
          IN /\ store' = h.store
             /\ pc' = [pc EXCEPT ![j] = h.pc]
             /\ UNCHANGED <<optimized, resultCache>>
     ELSE IF store[j] = NoRec
     THEN LET h == OuterExcept(store, j, ErrKeyError)
          IN /\ store' = h.store
             /\ pc' = [pc EXCEPT ![j] = h.pc]
             /\ UNCHANGED <<optimized, resultCache>>
     ELSE LET t == clean_latex_content(out)
              st70 == [store EXCEPT ![j].progress = 70,
                         ![j].message = "LLM processing completed, cleaning and validating result..."]
          IN IF ~ValidateOptimizationIsValid(req[j].tex_content, t)
                THEN /\ store' = [st70 EXCEPT ![j].status = "failed",
                                              ![j].error = ErrGeneratedInvalid]
                     /\ pc' = [pc EXCEPT ![j] = "done"]
                     /\ UNCHANGED <<optimized, resultCache>>
                ELSE /\ optimized' = [optimized EXCEPT ![j] = t]
                     /\ resultCache' = cache_optimization_result(resultCache, KeyOf(req[j]), EnhancedResult(t))
                     /\ store' = [st70 EXCEPT ![j].progress = 95,
                                              ![j].message = "Generating PDF..."]
                     /\ pc' = [pc EXCEPT ![j] = "compile"]
  /\ req' = IF pc'[j] = "compile" THEN req ELSE [req EXCEPT ![j] = NoReq]
  /\ resp' = NoResp
  /\ UNCHANGED <<pdf_error, pdfCache, files, history>>

\* start_time is assigned in optimize_resume only; inside
\* process_optimization_background the name is bound nowhere, so reading it
\* raises NameError
StartTimeBound == FALSE

\* save_to_history: one row per call
save_to_history(h, j, status) == h \cup {[optimization_id |-> j, status |-> status]}

\* a fallback handler that marks the job failed without an error text
InnerExceptStatusOnly(st, j) ==
  IF st[j] = NoRec
  THEN OuterExcept(st, j, ErrKeyError)
  ELSE [store |-> [st EXCEPT ![j].status = "failed"], pc |-> "done"]

\* the handler "except Exception as e" of the raw-LaTeX fallback; a KeyError
\* raised inside it reaches the outer handler
InnerExcept(st, j) ==
  IF st[j] = NoRec
  THEN OuterExcept(st, j, ErrKeyError)
  ELSE [store |-> [st EXCEPT ![j].status = "failed",
                             ![j].error = ErrPdfGenerationFailed],
        pc |-> "done"]

\* the update applied when the PDF could not be built
FailedUpdate(rec, j, t, error_msg) ==
  [rec EXCEPT !.status = "failed", !.progress = 100,
              !.message = MsgOverleaf,
              !.error = ErrOverleaf(error_msg),
              !.result = [EnhancedResult(t) EXCEPT
                             !.latex_download_url = LatexDownloadUrl(j),
                             !.pdf_compilation_error = error_msg,
                             !.has_raw_latex = TRUE],
              !.cached = "False"]

\* the update applied when the PDF was built and persisted
CompletedUpdate(rec, t) ==
  [rec EXCEPT !.status = "completed", !.progress = 100,
              !.message = "Optimization completed successfully",
              !.result = [EnhancedResult(t) EXCEPT !.pdf_info = TRUE],
              !.cached = "False",
              !.completed_at = TRUE]

\* compile_latex_to_pdf raised: keep the raw LaTeX
CompileFailedBranch(j, error_msg) ==
  LET label == req[j].company_name IN
  IF HasSeparator(label)
  THEN LET h == InnerExcept(store, j)
       IN [store |-> h.store, pc |-> h.pc, files |-> files,
           pdfCache |-> pdfCache, history |-> history]
  ELSE LET f1 == WriteFile(files, FailedTexPath(label, j), FileOf(j))
           c1 == [pdfCache EXCEPT ![j] = FailedTexPath(label, j)]
       IN IF store[j] = NoRec
          THEN LET h == InnerExcept(store, j)
               IN [store |-> h.store, pc |-> h.pc, files |-> f1,
                   pdfCache |-> c1, history |-> history]
          ELSE LET stf == [store EXCEPT ![j] =
                             FailedUpdate(store[j], j, optimized[j], error_msg)]
               IN IF StartTimeBound
                  THEN [store |-> stf, pc |-> "done", files |-> f1,
                        pdfCache |-> c1,
                        history |-> save_to_history(history, j, "failed")]
                  ELSE LET h == InnerExcept(stf, j)
                       IN [store |-> h.store, pc |-> h.pc, files |-> f1,
                           pdfCache |-> c1, history |-> history]

\* compile_latex_to_pdf returned the artifact: persist and complete
CompileSucceededBranch(j) ==
  LET label == req[j].company_name
      f1 == WriteFile(files, FinalPdfPath(label), FileOf(j))
      c1 == [pdfCache EXCEPT ![j] = FinalPdfPath(label)]
  IN IF HasSeparator(label)
     THEN LET h == OuterExcept(store, j, ErrFileNotFound)
          IN [store |-> h.store, pc |-> h.pc, files |-> f1,
              pdfCache |-> c1, history |-> history]
     ELSE LET f2 == WriteFile(WriteFile(f1, LatexSavePath(label, j), FileOf(j)),
                                 PdfSavePath(label, j), f1[FinalPdfPath(label)])
          IN IF store[j] = NoRec
             THEN LET h == OuterExcept(store, j, ErrKeyError)
                  IN [store |-> h.store, pc |-> h.pc, files |-> f2,
                      pdfCache |-> c1, history |-> history]
             ELSE LET stc == [store EXCEPT ![j] =
                                CompletedUpdate(store[j], optimized[j])]
                  IN IF StartTimeBound
                     THEN [store |-> stc, pc |-> "done", files |-> f2,
                           pdfCache |-> c1,
                           history |-> save_to_history(history, j, "completed")]
                     ELSE LET h == OuterExcept(stc, j, ErrNameStartTime)
                          IN [store |-> h.store, pc |-> h.pc, files |-> f2,
                              pdfCache |-> c1, history |-> history]

\* from the return of the compiler to the end of the task
CompileReturn(j, out) ==
  /\ UNCHANGED unit
  /\ pc[j] = "compile"
  /\ LET r == IF out = "ok" THEN CompileSucceededBranch(j)
              ELSE CompileFailedBranch(j, ErrCompile)
     IN /\ store' = r.store
        /\ pc' = [pc EXCEPT ![j] = r.pc]
        /\ files' = r.files
        /\ pdfCache' = r.pdfCache
        /\ history' = r.history
  /\ pdf_error' = [pdf_error EXCEPT ![j] = IF out = "ok" THEN NoError ELSE ErrCompile]
  /\ optimized' = [optimized EXCEPT ![j] = NoText]
  /\ req' = [req EXCEPT ![j] = NoReq]
  /\ resp' = NoResp
  /\ UNCHANGED resultCache

\* ---------------------------------------------- generate_pdf_background
\* a detached compile that reports its failure in the job table
PdfTaskStoreMarksFailed(st, j, out) ==
  IF out = "raise" /\ st[j] # NoRec
  THEN [st EXCEPT ![j].status = "failed", ![j].error = ErrPdfGenerationFailed]
  ELSE st

\* what the detached compile of a cached result writes to the job table
PdfTaskStore(st, j, out) == st

\* the detached task touches no shared state before it suspends in the
\* compiler; this is its run from the compiler's return to its end
PdfCompileReturn(j, out) ==
  /\ UNCHANGED unit
  /\ pc[j] = "pdf_compile"
  /\ pc' = [pc EXCEPT ![j] = "done"]
  /\ store' = PdfTaskStore(store, j, out)
  /\ IF out = "ok"
     THEN /\ files' = WriteFile(files, FinalPdfPath(req[j].company_name), FileOf(j))
          /\ pdfCache' = [pdfCache EXCEPT ![j] = FinalPdfPath(req[j].company_name)]
     ELSE UNCHANGED <<files, pdfCache>>
  /\ req' = [req EXCEPT ![j] = NoReq]
  /\ resp' = NoResp
  /\ UNCHANGED <<optimized, pdf_error, resultCache, history>>

\* a status endpoint that drops the record of a finished job once read
GetStatusEvicting(j) ==
  /\ UNCHANGED unit
  /\ resp' = IF store[j] = NoRec
             THEN [op |-> "status", id |-> j, code |-> 404]
             ELSE [op |-> "status", id |-> j, code |-> 200,
                   status |-> store[j].status,
                   progress |-> store[j].progress,
                   message |-> store[j].message,
                   error |-> store[j].error]
  /\ store' = IF store[j] # NoRec /\ store[j].status # "processing"
              THEN [store EXCEPT ![j] = NoRec] ELSE store
  /\ UNCHANGED <<req, pc, optimized, pdf_error, resultCache, pdfCache, files, history>>

\* ----------------------------------------------- get_optimization_status
GetStatus(j) ==
  /\ UNCHANGED unit
  /\ resp' = IF store[j] = NoRec
             THEN [op |-> "status", id |-> j, code |-> 404]
             ELSE [op |-> "status", id |-> j, code |-> 200,
                   status |-> store[j].status,
                   progress |-> store[j].progress,
                   message |-> store[j].message,
                   error |-> store[j].error]
  /\ UNCHANGED <<store, req, pc, optimized, pdf_error, resultCache, pdfCache, files, history>>

\* ----------------------------------------------- get_optimization_result
\* a result endpoint that only lets completed jobs through
GetResultCodeCompletedOnly(rec) ==
  IF rec = NoRec THEN 404
  ELSE IF rec.status # "completed" THEN 400
  ELSE 200

GetResultCode(rec) ==
  IF rec = NoRec THEN 404
  ELSE IF rec.status = "processing" THEN 400
  ELSE 200

\* the OptimizationResult built from a terminal record and the path cache
ResultBody(j, rec, pdf_path) ==
  [op |-> "result", id |-> j, code |-> 200,
   status |-> rec.status,
   optimized_tex |-> IF rec.result = NoResult THEN NoText
                     ELSE rec.result.optimized_tex,
   pdf_download_url |-> IF pdf_path # NoPath /\ rec.status = "completed"
                        THEN <<"/download", j>> ELSE NoUrl,
   latex_download_url |-> IF rec.status = "failed" /\ rec.result # NoResult
                             /\ rec.result.has_raw_latex
                          THEN rec.result.latex_download_url ELSE NoUrl,
   error_message |-> IF rec.status = "failed" THEN rec.error ELSE NoError]

GetResult(j) ==
  /\ UNCHANGED unit
  /\ resp' = IF GetResultCode(store[j]) = 200
             THEN ResultBody(j, store[j], pdfCache[j])
             ELSE [op |-> "result", id |-> j, code |-> GetResultCode(store[j])]
  /\ UNCHANGED <<store, req, pc, optimized, pdf_error, resultCache, pdfCache, files, history>>

\* --------------------------------------------------- delete_optimization
Delete(j) ==
  /\ UNCHANGED unit
  /\ IF store[j] = NoRec
     THEN /\ resp' = [op |-> "delete", id |-> j, code |-> 404]
          /\ UNCHANGED <<store, req, pc, optimized, pdf_error, resultCache, pdfCache, files, history>>
     ELSE /\ store' = [store EXCEPT ![j] = NoRec]
          /\ files' = IF pdfCache[j] # NoPath /\ FileExists(files, pdfCache[j])
                      THEN Unlink(files, pdfCache[j])
                      ELSE files
          /\ resp' = [op |-> "delete", id |-> j, code |-> 200]
          /\ UNCHANGED <<req, pc, optimized, pdf_error, resultCache, pdfCache, history>>

\* ------------------------------- download.py: download_pdf, download_latex
Download(j) ==
  /\ UNCHANGED unit
  /\ IF pdfCache[j] = NoPath
     THEN /\ resp' = [op |-> "download", id |-> j, code |-> 404]
          /\ UNCHANGED pdfCache
     ELSE IF ~FileExists(files, pdfCache[j])
     THEN /\ resp' = [op |-> "download", id |-> j, code |-> 404]
          /\ pdfCache' = [pdfCache EXCEPT ![j] = NoPath]
     ELSE /\ resp' = [op |-> "download", id |-> j, code |-> 200,
                      path |-> pdfCache[j], content |-> files[pdfCache[j]]]
          /\ UNCHANGED pdfCache
  /\ UNCHANGED <<store, req, pc, optimized, pdf_error, resultCache, files, history>>

\* the id the most recent submission received
LastId == CHOOSE j \in JobIds : pc[j] # "unused" /\ \A i \in JobIds : i > j => pc[i] = "unused"

\* ------------------------------------------------------------ behaviour
Next ==
  \/ \E j \in JobIds, r \in Requests : Submit(j, r.tex_content, r.company_name)
  \/ \E j \in JobIds : TaskStart(j)
  \/ \E j \in JobIds, out \in LlmTexts \cup {LlmRaises} : GenReturn(j, out)
  \/ \E j \in JobIds, out \in {"ok", "raise"} : CompileReturn(j, out)
  \/ \E j \in JobIds, out \in {"ok", "raise"} : PdfCompileReturn(j, out)
  \/ \E j \in JobIds : GetStatus(j)
  \/ \E j \in JobIds : GetResult(j)
  \/ \E j \in JobIds : Delete(j)
  \/ \E j \in JobIds : Download(j)

Spec == Init /\ [][Next]_vars

\* ============================================ the services on their own
\* Each service is also specified on its own: unit is the service object
\* (a record of its fields) together with its surroundings, what its
\* direct caller holds, and what the last call returned.
NoRet == [call |-> "none"]
ret == unit.ret
caller == unit.caller

\* ================================================= cache_service.py
\* The cache service on its own: one caller that sets, reads and deletes
\* keys, a clock, and a networked tier that becomes unreachable and
\* reachable again at any time.  Values are JSON-serialisable.
MaxTime == 2
MaxTtl == 2

CacheKeys == {"k1", "k2"}
CacheValues == {"v1", "v2"}
Ttls == 1..MaxTtl
NoValue == "None"

\* CacheService.memory_cache: key -> [data, expires_at]
memory_cache == unit.memory_cache
\* CacheService.redis_connected
redis_connected == unit.redis_connected
\* the networked tier: reachable or not, and the entries it holds
redis == unit.redis
\* datetime.now(), in seconds
now == unit.now

\* no entry in a cache tier
NoEntries == [k \in {} |-> <<>>]
Entry(value, ttl) == [data |-> value, expires_at |-> now + ttl]
Put(entries, key, e) ==
  [k \in DOMAIN entries \cup {key} |-> IF k = key THEN e ELSE entries[k]]
Remove(entries, key) == [k \in DOMAIN entries \ {key} |-> entries[k]]

\* the server holds a key until the ttl given to SETEX has run out
RedisHas(key) ==
  key \in DOMAIN redis.entries /\ now < redis.entries[key].expires_at

\* a handler that lets the exception through
Uncaught(outcome, default) == outcome

\* try: ... except Exception as e: return <default>
Caught(outcome, default) ==
  IF outcome.raised
  THEN [outcome EXCEPT !.raised = FALSE, !.value = default]
  ELSE outcome

\* CacheService.initialize, called once at start-up: ping decides
Initialize ==
  /\ ret = NoRet /\ ~redis_connected
  /\ unit' = [unit EXCEPT
       !.redis_connected = redis.reachable,
       !.ret = [call |-> "initialize", raised |-> FALSE, value |-> redis.reachable]]
  /\ UNCHANGED jobVars

\* the try block of CacheService.get
GetBody(key) ==
  IF redis_connected /\ ~redis.reachable
  THEN [raised |-> TRUE, value |-> NoValue, memory |-> memory_cache]
  ELSE IF redis_connected /\ RedisHas(key)
  THEN [raised |-> FALSE, value |-> redis.entries[key].data, memory |-> memory_cache]
  ELSE IF key \in DOMAIN memory_cache
  THEN IF now < memory_cache[key].expires_at
       THEN [raised |-> FALSE, value |-> memory_cache[key].data, memory |-> memory_cache]
       ELSE [raised |-> FALSE, value |-> NoValue, memory |-> Remove(memory_cache, key)]
  ELSE [raised |-> FALSE, value |-> NoValue, memory |-> memory_cache]

\* CacheService.get
CacheGet(key) ==
  LET o == Caught(GetBody(key), NoValue)
  IN /\ unit' = [unit EXCEPT
          !.memory_cache = o.memory,
          !.ret = [call |-> "get", key |-> key, raised |-> o.raised, value |-> o.value]]
     /\ UNCHANGED jobVars

\* the try block of CacheService.set
SetBody(key, value, ttl) ==
  IF redis_connected /\ ~redis.reachable
  THEN [raised |-> TRUE, value |-> FALSE, memory |-> memory_cache, entries |-> redis.entries]
  ELSE [raised |-> FALSE, value |-> TRUE,
        memory |-> Put(memory_cache, key, Entry(value, ttl)),
        entries |-> IF redis_connected
                    THEN Put(redis.entries, key, Entry(value, ttl))
                    ELSE redis.entries]

\* CacheService.set; the caller notes what a set that reported success wrote
CacheSet(key, value, ttl) ==
  LET o == Caught(SetBody(key, value, ttl), FALSE)
  IN /\ unit' = [unit EXCEPT
          !.memory_cache = o.memory,
          !.redis.entries = o.entries,
          !.ret = [call |-> "set", key |-> key, raised |-> o.raised, value |-> o.value],
          !.caller = IF ~o.raised /\ o.value
                     THEN Put(caller, key, Entry(value, ttl))
                     ELSE caller]
     /\ UNCHANGED jobVars

\* the try block of CacheService.delete
DeleteBody(key) ==
  IF redis_connected /\ ~redis.reachable
  THEN [raised |-> TRUE, value |-> FALSE, memory |-> memory_cache, entries |-> redis.entries]
  ELSE [raised |-> FALSE, value |-> TRUE,
        memory |-> Remove(memory_cache, key),
        entries |-> IF redis_connected
                    THEN Remove(redis.entries, key)
                    ELSE redis.entries]

\* CacheService.delete; the caller forgets a key whose delete reported success
CacheDelete(key) ==
  LET o == Caught(DeleteBody(key), FALSE)
  IN /\ unit' = [unit EXCEPT
          !.memory_cache = o.memory,
          !.redis.entries = o.entries,
          !.ret = [call |-> "delete", key |-> key, raised |-> o.raised, value |-> o.value],
          !.caller = IF ~o.raised /\ o.value THEN Remove(caller, key) ELSE caller]
     /\ UNCHANGED jobVars

\* a second passes
Tick ==
  /\ now < MaxTime
  /\ unit' = [unit EXCEPT !.now = now + 1]
  /\ UNCHANGED jobVars

\* the networked tier becomes unreachable, or reachable again
RedisFlips ==
  /\ unit' = [unit EXCEPT !.redis.reachable = ~@]
  /\ UNCHANGED jobVars

\* CacheService.__init__, next to a networked tier that is up or down
CacheInit ==
  /\ JobsConstructed
  /\ unit \in {[memory_cache |-> NoEntries, redis_connected |-> FALSE,
                redis |-> [reachable |-> b, entries |-> NoEntries],
                now |-> 0, caller |-> NoEntries, ret |-> NoRet] : b \in BOOLEAN}

CacheNext ==
  \/ Initialize
  \/ \E k \in CacheKeys : CacheGet(k)
  \/ \E k \in CacheKeys, v \in CacheValues, t \in Ttls : CacheSet(k, v, t)
  \/ \E k \in CacheKeys : CacheDelete(k)
  \/ Tick
  \/ RedisFlips

SpecCache == CacheInit /\ [][CacheNext]_vars

\* ------------------------------- cache_service.py: the optimization key
\* generate_optimization_key on its own: a caller holds four strings and
\* asks for their key.  Documents and job descriptions are free text, in
\* which the bar is an ordinary character.
MaxFieldLen == 3

TextAlphabet == {"a", "|"}
TextStrings == UNION {[1..n -> TextAlphabet] : n \in 1..MaxFieldLen}
KeyProviders == {<<"openai">>, <<"claude">>}
KeyModels == {<<"m1">>, <<"m2">>}
KeyTuples ==
  [tex_content : TextStrings, job_description : TextStrings,
   llm_provider : KeyProviders, llm_model : KeyModels]

\* the input string of the hash for a tuple of fields
CombinedOf(t) ==
  Combined(t.tex_content, t.job_description, t.llm_provider, t.llm_model)

\* a call of generate_optimization_key with the caller's four strings
GenerateKey ==
  /\ unit' = [unit EXCEPT
       !.ret = [call |-> "generate_optimization_key",
                value |-> generate_optimization_key(
                            caller.tex_content, caller.job_description,
                            caller.llm_provider, caller.llm_model)]]
  /\ UNCHANGED jobVars

KeyInit ==
  /\ JobsConstructed
  /\ unit \in {[caller |-> t, ret |-> NoRet] : t \in KeyTuples}

KeyNext == GenerateKey

SpecKey == KeyInit /\ [][KeyNext]_vars

\* ======================================================= tex_parser.py
\* The parser on its own.  Here a text is the sequence of its lines; the
\* lines are drawn from the ones the patterns of the parser tell apart,
\* none of them blank or indented.
MaxLines == 3

\* the lines that open a fenced block for latex and that are a bare fence
\* (three backquotes, alone or followed by the word latex)
FenceLatex == "<fence>latex"
FenceBare == "<fence>"
FenceLines == {FenceLatex, FenceBare}
TexLines ==
  FenceLines \cup
  {"\\documentclass[11pt]{article}", "\\documentclass[11pt]{resume}",
   "\\documentclass{article}",
   "\\begin{document}", "\\end{document}",
   "\\section{Skills}", "\\section {skills}"}
Texts == UNION {[1..n -> TexLines] : n \in 0..MaxLines}

\* required_patterns['document_class'] on a line: the class it captures.
\* The pattern asks for an options bracket between command and class.
DocumentClassMatch ==
  [l \in {"\\documentclass[11pt]{article}", "\\documentclass[11pt]{resume}"} |->
     IF l = "\\documentclass[11pt]{article}" THEN "article" ELSE "resume"]

\* required_patterns['sections'] on a line: the name it captures
SectionMatch ==
  [l \in {"\\section{Skills}", "\\section {skills}"} |->
     IF l = "\\section{Skills}" THEN "Skills" ELSE "skills"]

\* str.lower on section names
Lower(name) == IF name = "Skills" THEN "skills" ELSE name

\* re.search(pattern, tex_content) for a pattern that matches within a line
Search(t, matching) == \E i \in 1..Len(t) : t[i] \in matching

\* LaTeXParser._validate_structure(...)['errors'] on the lines of a text
StructureErrors(t) ==
  (IF Search(t, DOMAIN DocumentClassMatch) THEN <<>>
   ELSE <<"Missing \\documentclass declaration">>)
  \o (IF Search(t, {"\\begin{document}"}) THEN <<>> ELSE <<"Missing \\begin{document}">>)
  \o (IF Search(t, {"\\end{document}"}) THEN <<>> ELSE <<"Missing \\end{document}">>)

\* LaTeXParser._validate_structure(...)['warnings']: none of the lines is
\* a \maketitle or \name command
StructureWarnings(t) == <<<<"No title or name command found">>>>

\* LaTeXParser._extract_document_class
extract_document_class(t) ==
  IF Search(t, DOMAIN DocumentClassMatch)
  THEN LET i == CHOOSE i \in 1..Len(t) :
                  /\ t[i] \in DOMAIN DocumentClassMatch
                  /\ \A j \in 1..(i - 1) : t[j] \notin DOMAIN DocumentClassMatch
       IN DocumentClassMatch[t[i]]
  ELSE "unknown"

\* LaTeXParser._extract_sections: the section names, in order
extract_sections(t) ==
  LET IsSection(l) == l \in DOMAIN SectionMatch
      lines == SelectSeq(t, IsSection)
  IN [i \in 1..Len(lines) |-> SectionMatch[lines[i]]]

SectionNames(sections) == {Lower(sections[i]) : i \in 1..Len(sections)}

CommonSections ==
  {"experience", "education", "skills", "projects", "summary", "objective",
   "achievements", "certifications", "publications", "awards", "languages",
   "interests", "contact", "personal"}

\* LaTeXParser._check_resume_sections: the warnings it appends
check_resume_sections(sections) ==
  LET found == SectionNames(sections)
      missing_essential == {"experience", "education", "skills"} \ found
  IN (IF missing_essential # {}
      THEN <<<<"Missing essential sections", missing_essential>>>> ELSE <<>>)
     \o (IF Cardinality(CommonSections \cap found) < 3
         THEN <<<<"Less than 3 common resume sections found">>>> ELSE <<>>)

\* LaTeXParser.parse_latex
parse_latex(t) ==
  [is_valid |-> Len(StructureErrors(t)) = 0,
   sections |-> extract_sections(t),
   document_class |-> extract_document_class(t),
   errors |-> StructureErrors(t),
   warnings |-> StructureWarnings(t) \o check_resume_sections(extract_sections(t))]

\* LaTeXParser._strip_markdown_fences.  The fence pattern matches from an
\* opening fence line to the first later line that is a bare fence, with
\* at least one line between them, and keeps the lines between; without a
\* match, a text that starts with a fence loses its first line, and its
\* last line too when that is a bare fence.
strip_markdown_fences(t) ==
  IF t # <<>> /\ t[1] \in FenceLines
  THEN LET closing == {i \in 3..Len(t) : t[i] = FenceBare}
       IN IF closing # {}
          THEN LET first == CHOOSE i \in closing : \A j \in closing : i <= j
               IN SubSeq(t, 2, first - 1)
          ELSE LET lines == Tail(t)
               IN IF lines # <<>> /\ lines[Len(lines)] = FenceBare
                  THEN SubSeq(lines, 1, Len(lines) - 1)
                  ELSE lines
  ELSE t

\* LaTeXParser._fix_common_issues: no space between a command and its brace
fix_common_issues(t) ==
  [i \in 1..Len(t) |-> IF t[i] = "\\section {skills}" THEN "\\section{skills}" ELSE t[i]]

\* LaTeXParser.clean_latex_content on the lines of a text
clean_lines(t) == fix_common_issues(strip_markdown_fences(t))

\* LaTeXParser.validate_optimization_result
validate_optimization_result(original_tex, optimized_tex) ==
  LET original_result == parse_latex(original_tex)
      optimized_result == parse_latex(optimized_tex)
      removed_sections == SectionNames(original_result.sections)
                          \ SectionNames(optimized_result.sections)
      class_changed == original_result.document_class # optimized_result.document_class
  IN [is_valid |-> optimized_result.is_valid,
      structure_preserved |-> removed_sections = {} /\ Len(optimized_result.errors) = 0,
      issues |-> (IF class_changed
                  THEN <<<<"Document class changed", original_result.document_class,
                           optimized_result.document_class>>>> ELSE <<>>)
                 \o (IF removed_sections # {}
                     THEN <<<<"Sections removed", removed_sections>>>> ELSE <<>>)
                 \o [i \in 1..Len(optimized_result.errors) |->
                       <<"Compilation error", optimized_result.errors[i]>>]]

\* the resumes a caller had optimized: with and without a section
Originals ==
  {<<"\\documentclass[11pt]{article}", "\\begin{document}", "\\section{Skills}",
     "\\end{document}">>,
   <<"\\documentclass[11pt]{article}", "\\begin{document}", "\\end{document}">>}

\* a call of parse_latex with the caller's text
ParseLatex ==
  /\ unit' = [unit EXCEPT
       !.ret = [call |-> "parse_latex", value |-> parse_latex(caller.text)]]
  /\ UNCHANGED jobVars

\* a call of clean_latex_content with the caller's text
CleanLatex ==
  /\ unit' = [unit EXCEPT
       !.ret = [call |-> "clean_latex_content", value |-> clean_lines(caller.text)]]
  /\ UNCHANGED jobVars

\* a call of validate_optimization_result with the caller's two texts
ValidateOptimization ==
  /\ unit' = [unit EXCEPT
       !.ret = [call |-> "validate_optimization_result",
                value |-> validate_optimization_result(caller.original, caller.text)]]
  /\ UNCHANGED jobVars

ParserInit ==
  /\ JobsConstructed
  /\ unit \in {[caller |-> [original |-> o, text |-> t], ret |-> NoRet] :
                 o \in Originals, t \in Texts}

ParserNext ==
  \/ ParseLatex
  \/ CleanLatex
  \/ ValidateOptimization

SpecParser == ParserInit /\ [][ParserNext]_vars

\* ==================================================== pdf_generator.py
\* The PDF generator on its own: a host on which some of the compilers
\* answer the probe, and a compiler run that ends in one of the ways the
\* generator tells apart.
\* probes of one compiler that are followed
MaxProbes == 2

NoCompiler == "None"
\* PDFGenerator.compilers, in order of preference
Compilers == <<"xelatex", "pdflatex", "lualatex", "tectonic">>
CompilerNames == {Compilers[i] : i \in 1..Len(Compilers)}

\* how a compiler run ends: a PDF of plausible size, a non-zero exit code,
\* no answer within max_compile_time, exit code 0 without a PDF file, a
\* PDF above max_file_size, a PDF below 1000 bytes
RunOutcomes == {"pdf", "exit_code", "timeout", "no_pdf", "too_large", "too_small"}

\* PDFGenerator.selected_compiler
selected_compiler == unit.selected_compiler
\* the compilers whose --version probe exits with 0 on this host
installed == unit.installed

\* PDFGenerator.initialize: the first compiler of the list that answers
FirstInstalled ==
  IF installed = {} THEN NoCompiler
  ELSE Compilers[CHOOSE i \in 1..Len(Compilers) :
                   /\ Compilers[i] \in installed
                   /\ \A j \in 1..(i - 1) : Compilers[j] \notin installed]

\* _check_compiler_available calls made so far, per compiler
probes == unit.probes

\* the compilers one run of initialize probes: the list in order, up to and
\* including the first that answers
Probed ==
  {Compilers[i] : i \in {k \in 1..Len(Compilers) :
                           \A j \in 1..(k - 1) : Compilers[j] \notin installed}}

ProbeRound == [c \in CompilerNames |-> IF c \in Probed THEN probes[c] + 1 ELSE probes[c]]

CanProbe == \A c \in Probed : probes[c] < MaxProbes

\* PDFGenerator.initialize, called by the two health checks
PdfInitialize ==
  /\ CanProbe
  /\ unit' = [unit EXCEPT
       !.probes = ProbeRound,
       !.selected_compiler = IF FirstInstalled = NoCompiler THEN @ ELSE FirstInstalled,
       !.ret = [call |-> "initialize", raised |-> FALSE,
                value |-> FirstInstalled # NoCompiler]]
  /\ UNCHANGED jobVars

\* what the body of compile_latex_to_pdf raises for a run that went wrong
RunError(compiler, outcome) ==
  CASE outcome = "exit_code" -> <<compiler, "compilation failed (exit code: 1)">>
    [] outcome = "timeout" -> <<"Compilation timed out after 30s">>
    [] outcome = "no_pdf" -> <<"PDF file not generated">>
    [] outcome = "too_large" -> <<"PDF file too large">>
    [] outcome = "too_small" -> <<"PDF file suspiciously small">>

\* PDFGenerator.compile_latex_to_pdf: what it returns or raises, with the
\* compiler in use after the lazy initialisation
CompileOutcome(compiler, outcome) ==
  IF compiler = NoCompiler
  THEN [raised |-> TRUE, value |-> <<"No LaTeX compiler available">>]
  ELSE IF outcome = "pdf"
  THEN [raised |-> FALSE, value |-> [success |-> TRUE, compiler_used |-> compiler]]
  ELSE [raised |-> TRUE,
        value |-> <<"PDF compilation failed">> \o RunError(compiler, outcome)]

\* PDFGenerator.compile_latex_to_pdf
CompileLatexToPdf(outcome) ==
  LET compiler == IF selected_compiler = NoCompiler THEN FirstInstalled
                  ELSE selected_compiler
      o == CompileOutcome(compiler, outcome)
  IN /\ selected_compiler = NoCompiler => CanProbe
     /\ unit' = [unit EXCEPT
          !.probes = IF selected_compiler = NoCompiler THEN ProbeRound ELSE @,
          !.selected_compiler = compiler,
          !.ret = [call |-> "compile_latex_to_pdf", run |-> outcome,
                   raised |-> o.raised, value |-> o.value]]
     /\ UNCHANGED jobVars

\* PDFGenerator.__init__ on a host with any set of compilers
CompilerInit ==
  /\ JobsConstructed
  /\ unit \in {[selected_compiler |-> NoCompiler, installed |-> i, ret |-> NoRet,
                 probes |-> [c \in CompilerNames |-> 0]] :
                 i \in SUBSET CompilerNames}

CompilerNext ==
  \/ PdfInitialize
  \/ \E outcome \in RunOutcomes : CompileLatexToPdf(outcome)

SpecCompiler == CompilerInit /\ [][CompilerNext]_vars

\* ============================================== tests/mock_services.py
\* MockAnalyticsService as the integration tests drive it: events are
\* tracked for users and the statistics of a user are read.
MaxEvents == 3

Users == {"jane@example.com", "john@example.com"}
EventTypes == {"optimization_completed", "optimization"}

\* MockAnalyticsService.events
events == unit.events

\* [e for e in self.events if e["user_email"] == user_email]
UserEvents(user_email) ==
  LET Mine(e) == e.user_email = user_email IN SelectSeq(events, Mine)

\* the number of events of a list that have the given type
CountType(evs, event_type) ==
  LET Typed(e) == e.event_type = event_type IN Len(SelectSeq(evs, Typed))

\* MockAnalyticsService.get_user_stats: what it returns
Stats(user_email) ==
  [user_email |-> user_email,
   total_optimizations |-> CountType(UserEvents(user_email), "optimization"),
   total_events |-> Len(UserEvents(user_email))]

\* MockAnalyticsService.track_event
TrackEvent(user_email, event_type) ==
  /\ Len(events) < MaxEvents
  /\ unit' = [unit EXCEPT
       !.events = Append(@, [user_email |-> user_email, event_type |-> event_type]),
       !.ret = [call |-> "track_event"]]
  /\ UNCHANGED jobVars

\* MockAnalyticsService.get_user_stats
GetUserStats(user_email) ==
  /\ unit' = [unit EXCEPT
       !.ret = [call |-> "get_user_stats", value |-> Stats(user_email)]]
  /\ UNCHANGED jobVars

\* MockAnalyticsService.__init__
AnalyticsInit ==
  /\ JobsConstructed
  /\ unit = [events |-> <<>>, ret |-> NoRet]

AnalyticsNext ==
  \/ \E u \in Users, t \in EventTypes : TrackEvent(u, t)
  \/ \E u \in Users : GetUserStats(u)

SpecAnalytics == AnalyticsInit /\ [][AnalyticsNext]_vars

\* ================================================================ claims
Terminal == {"completed", "failed"}

\* a job that was submitted and whose record was removed by delete
Deleted(j) == pc[j] # "unused" /\ store[j] = NoRec

\* C1: in every step, a job record whose status is completed or failed
\* keeps that status for as long as the record exists, and a record's
\* status is always one of processing, completed, failed; so the statuses
\* successive polls see are processing*, then one terminal value.
C1_TerminalSticky ==
  [][\A j \in JobIds :
       /\ store'[j] # NoRec => store'[j].status \in {"processing"} \cup Terminal
       /\ (store[j] # NoRec /\ store[j].status \in Terminal)
            => (store'[j] = NoRec \/ store'[j].status = store[j].status)]_vars

\* C1 witness: a poll answers completed for a job served from the cache
\* whose detached compile has since failed or finished
C1_Witness ==
  /\ resp.op = "status" /\ resp.code = 200 /\ resp.status = "completed"
  /\ pc[resp.id] = "done"

\* C2: a job whose task reached the completing update (completed_at set),
\* i.e. generation, validation, compilation and persistence succeeded, has
\* status completed whatever happens while its history row is recorded.
C2_HistoryFailureKeepsCompleted ==
  \A j \in JobIds :
    (store[j] # NoRec /\ store[j].completed_at) => store[j].status = "completed"

\* C3: Scenario A: a job on the miss path whose generated text passed
\* validation and whose artifact was compiled and persisted ends completed
\* with progress 100, a result and an artifact pointer.
C3_ScenarioA ==
  \A j \in JobIds :
    (/\ pc[j] = "done" /\ store[j] # NoRec
     /\ FileExists(files, PdfSavePath(store[j].company_name, j)))
    => /\ store[j].status = "completed"
       /\ store[j].progress = 100
       /\ store[j].result # NoResult
       /\ pdfCache[j] # NoPath

\* the text tells the user to compile with an external compiler
IsManualCompileInstruction(e) ==
  e # NoError /\ e[1] = ErrOverleaf(NoError)[1]

\* C4: when the compiler failed for a job whose text passed validation,
\* getResult answers with status failed, a raw-source pointer and an error
\* text instructing manual compilation.
C4_PartialFailure ==
  (/\ resp.op = "result"
   /\ pc[resp.id] = "done" /\ store[resp.id] # NoRec
   /\ pdf_error[resp.id] # NoError)
  => /\ resp.code = 200
     /\ resp.status = "failed"
     /\ resp.latex_download_url # NoUrl
     /\ IsManualCompileInstruction(resp.error_message)

\* C5: when the compiler failed for a job whose text passed validation, the
\* produced text is on disk under the failure-suffixed name, the path cache
\* points at it and the job's result carries the raw-source pointer, for
\* every company label.
C5_SourcePreserved ==
  \A j \in JobIds :
    (pc[j] = "done" /\ store[j] # NoRec /\ pdf_error[j] # NoError)
    => /\ FileExists(files, FailedTexPath(store[j].company_name, j))
       /\ files[FailedTexPath(store[j].company_name, j)] = FileOf(j)
       /\ store[j].result # NoResult
       /\ store[j].result.has_raw_latex
       /\ store[j].result.latex_download_url # NoUrl

\* the error text that names anchor a
AnchorError(a) ==
  IF a = "documentclass" THEN "Missing documentclass declaration"
  ELSE IF a = "begin_document" THEN "Missing begin{document}"
  ELSE "Missing end{document}"

\* the text e names every mandatory anchor that document t lacks
NamesMissingAnchors(e, t) ==
  \A a \in Anchors \ t.anchors : \E i \in 1..Len(e) : e[i] = AnchorError(a)

LacksAnchor(t) == t.anchors # Anchors

\* C6 as stated: a submission whose document lacks a mandatory anchor is
\* answered normally with the new job's id.
C6_InvalidSubmitReturnsId ==
  (resp.op = "submit" /\ LacksAnchor(store[LastId].original_tex))
  => (resp.code = 200 /\ resp.optimization_id = LastId)

\* C6 amended: a job whose document lacks a mandatory anchor has no
\* background task, its record (while it exists) is failed with an error
\* naming the missing anchor, and the submission is answered with a 400
\* error naming the missing anchor instead of the job id.
C6_InvalidSubmitFailsWith400 ==
  /\ \A j \in JobIds :
       (store[j] # NoRec /\ LacksAnchor(store[j].original_tex))
       => /\ pc[j] = "notask"
          /\ store[j].status = "failed"
          /\ store[j].error # NoError
          /\ NamesMissingAnchors(store[j].error, store[j].original_tex)
  /\ (resp.op = "submit" /\ LacksAnchor(store[LastId].original_tex))
     => /\ resp.code = 400
        /\ NamesMissingAnchors(resp.detail, store[LastId].original_tex)

\* C6 witness: a submission of a document without the end marker was just
\* answered
C6_Witness ==
  /\ resp.op = "submit"
  /\ "end_document" \notin store[LastId].original_tex.anchors
  /\ store[LastId] # NoRec

\* C7: getResult answers 404 exactly for an id without a record, 400
\* exactly for a record in status processing, and a result (200, carrying
\* the record's status) for every completed or failed record.
C7_GetResultGate ==
  resp.op = "result" =>
    /\ resp.code = 404 <=> store[resp.id] = NoRec
    /\ resp.code = 400 <=> (store[resp.id] # NoRec /\ store[resp.id].status = "processing")
    /\ (store[resp.id] # NoRec /\ store[resp.id].status \in Terminal)
         => (resp.code = 200 /\ resp.status = store[resp.id].status)

\* C7 witness: getResult answered for a failed job
C7_Witness ==
  /\ resp.op = "result" /\ resp.code = 200 /\ resp.status = "failed"

\* C8: a step that answers getStatus leaves the job table, both cache
\* maps, the files, the history and every task position unchanged, answers
\* 404 for an id without a record and otherwise returns the stored status,
\* progress, message and error.
C8_GetStatusPureRead ==
  [][resp'.op = "status" =>
       /\ UNCHANGED <<store, req, pc, resultCache, pdfCache, files, history>>
       /\ IF store[resp'.id] = NoRec
          THEN resp'.code = 404
          ELSE /\ resp'.code = 200
               /\ resp'.status = store[resp'.id].status
               /\ resp'.progress = store[resp'.id].progress
               /\ resp'.message = store[resp'.id].message
               /\ resp'.error = store[resp'.id].error]_vars

\* C8 witness: a poll returned the stored error of a failed job
C8_Witness ==
  /\ resp.op = "status" /\ resp.code = 200
  /\ resp.status = "failed" /\ resp.error # NoError
  /\ store[resp.id] # NoRec

\* C9: after delete removed a job's record, a download for that id is
\* answered 404 (and status/result polls are answered 404).
C9_DeletedNotDownloadable ==
  /\ (resp.op = "download" /\ Deleted(resp.id)) => resp.code = 404
  /\ (resp.op \in {"status", "result"} /\ Deleted(resp.id)) => resp.code = 404

\* C10: a delete never cuts a background task short: no task ends by an
\* exception escaping it, so each one runs its remaining steps (cache
\* write, compilation, persistence) to its normal end.
C10_DeleteDoesNotInterrupt ==
  \A j \in JobIds : pc[j] # "crashed"

\* C11: every exception raised inside a job's background task is caught by
\* the task's outermost handler: no task ends by an exception leaving it,
\* and a task that ended on an exception left its job failed with the
\* error text, whatever polls and deletes ran in between.
C11_ExceptionsCaught ==
  \A j \in JobIds :
    /\ pc[j] \in {"unused", "notask", "start", "gen", "compile", "pdf_compile", "done"}
    /\ (pc[j] = "done" /\ store[j] # NoRec /\ store[j].status = "failed")
         => store[j].error # NoError

\* what getStatus answers for an existing record
StatusBody(j, rec) ==
  [op |-> "status", id |-> j, code |-> 200, status |-> rec.status,
   progress |-> rec.progress, message |-> rec.message, error |-> rec.error]

\* C12: while a terminal job's record exists, no step changes what
\* getResult and getStatus answer for it: the same status, text, error and
\* the same artifact and source pointers on every call.
C12_TerminalAnswersStable ==
  [][\A j \in JobIds :
       (/\ store[j] # NoRec /\ store[j].status \in Terminal
        /\ store'[j] # NoRec)
       => /\ ResultBody(j, store'[j], pdfCache'[j]) = ResultBody(j, store[j], pdfCache[j])
          /\ StatusBody(j, store'[j]) = StatusBody(j, store[j])]_vars

\* C13: a job record's progress is always within 0..100, and no step
\* lowers the progress of a record that exists before and after it, on
\* the hit path, the miss path and every failure path.
C13_ProgressMonotone ==
  [][\A j \in JobIds :
       /\ store'[j] # NoRec => store'[j].progress \in 0..100
       /\ (store[j] # NoRec /\ store'[j] # NoRec)
            => store'[j].progress >= store[j].progress]_vars

\* C13 witness: one job failed on an exception or invalid generated text
\* below 100 while another went through every progress write up to 100
C13_Witness ==
  \E i, j \in JobIds :
    /\ store[i] # NoRec /\ store[i].status = "failed"
    /\ store[i].progress \in {40, 70}
    /\ store[j] # NoRec /\ pc[j] = "done" /\ store[j].progress = 100
    /\ store[j].cached = "False"

\* C14: in every reachable state a job record carries an error text if
\* and only if its status is failed.
C14_ErrorIffFailed ==
  \A j \in JobIds :
    store[j] # NoRec => (store[j].error # NoError <=> store[j].status = "failed")

\* C14 witness: a completed job without an error text next to a job that
\* failed after its compile, with one
C14_Witness ==
  \E i, j \in JobIds :
    /\ store[i] # NoRec /\ store[i].status = "completed" /\ store[i].error = NoError
    /\ store[j] # NoRec /\ store[j].status = "failed" /\ store[j].progress = 100
    /\ store[j].error # NoError

\* C15 as stated: a job record carries a result payload if and only if
\* its status is completed or failed.
C15_ResultIffTerminal ==
  \A j \in JobIds :
    store[j] # NoRec => (store[j].result # NoResult <=> store[j].status \in Terminal)

\* C15 amended: no running job has a result payload, every completed job
\* has one, and a failed job has one only if its task got as far as the
\* compile step (progress 100); jobs that failed earlier have none.
C15_ResultOnlyAfterGeneration ==
  \A j \in JobIds :
    store[j] # NoRec =>
      /\ store[j].status = "processing" => store[j].result = NoResult
      /\ store[j].status = "completed" => store[j].result # NoResult
      /\ (store[j].status = "failed" /\ store[j].result # NoResult)
           => store[j].progress = 100
      /\ (store[j].status = "failed" /\ store[j].progress < 95)
           => store[j].result = NoResult

\* C15 witness: a job that failed on invalid generated text and carries no
\* result, next to a job that failed after its compile and carries one
C15_Witness ==
  \E i, j \in JobIds :
    /\ store[i] # NoRec /\ store[i].status = "failed"
    /\ store[i].progress = 70 /\ store[i].result = NoResult
    /\ store[j] # NoRec /\ store[j].status = "failed"
    /\ store[j].progress = 100 /\ store[j].result # NoResult

\* the step submits job j
Submitted(j) == pc[j] = "unused" /\ pc'[j] # "unused"

\* the cache key of the document in a job record
RecordKey(rec) == generate_optimization_key(DocString(rec.original_tex), JobDesc, Provider, Model)

\* C16: Scenario C: a job submitted while the result cache holds an entry
\* for its exact (document, job description, provider, model) tuple is
\* completed with progress 100 and the cached result by the submission
\* itself, and its task never enters the generation call: it only waits
\* for the detached compile and ends, the record staying completed.
C16_ScenarioC ==
  [][\A j \in JobIds :
       /\ (/\ Submitted(j) /\ ParseIsValid(store'[j].original_tex)
           /\ resultCache[RecordKey(store'[j])] # NoResult)
          => /\ store'[j].status = "completed"
             /\ store'[j].progress = 100
             /\ store'[j].result = resultCache[RecordKey(store'[j])]
             /\ pc'[j] = "pdf_compile"
       /\ pc[j] = "pdf_compile"
          => /\ pc'[j] \in {"pdf_compile", "done"}
             /\ store'[j] # NoRec => /\ store'[j].status = "completed"
                                     /\ store'[j].progress = 100]_vars

\* C16 witness: a job served from the cache has ended, still completed
C16_Witness ==
  \E j \in JobIds :
    /\ pc[j] = "done" /\ store[j] # NoRec
    /\ store[j].cached = "True" /\ store[j].status = "completed"
    /\ store[j].progress = 100

\* job i's generation call returned a text that passed validation, for
\* document doc
GeneratedFor(i, doc) ==
  \/ pc[i] = "compile" /\ req[i].tex_content = doc
  \/ /\ pc[i] = "done" /\ store[i] # NoRec
     /\ store[i].cached # "True" /\ store[i].progress >= 95
     /\ store[i].original_tex = doc

\* C17: single-flight, sequence form: a job submitted with the same tuple
\* as an earlier job whose generation has completed is served from the
\* cache (completed at once) and never starts a generation call.
C17_SecondSubmissionHits ==
  [][\A i, j \in JobIds :
       (/\ i # j /\ Submitted(j)
        /\ GeneratedFor(i, store'[j].original_tex))
       => /\ store'[j].cached = "True"
          /\ store'[j].status = "completed"
          /\ pc'[j] = "pdf_compile"]_vars

\* C17 witness: the second job with the same document was served from the
\* cache while the first was past its generation call
C17_Witness ==
  \E i, j \in JobIds :
    /\ i < j /\ store[j] # NoRec /\ store[j].cached = "True"
    /\ resp.op = "submit" /\ resp.code = 200 /\ resp.optimization_id = j
    /\ GeneratedFor(i, store[j].original_tex)

\* C18: single-flight, concurrency form: at no time are two jobs with the
\* same (document, job description, provider, model) tuple both inside
\* the generation call.
C18_SingleFlight ==
  \A i, j \in JobIds :
    (i # j /\ pc[i] = "gen" /\ pc[j] = "gen") => KeyOf(req[i]) # KeyOf(req[j])

\* C19: Scenario B: when the generation call returns, for a job whose
\* record exists, a text that after cleaning lacks a mandatory anchor, the
\* same run ends the task with the job failed and an error about invalid
\* generated output; the compiler is not entered, no file and no artifact
\* pointer is written, and the result cache is left as it was.
C19_ScenarioB ==
  [][\A j \in JobIds, out \in LlmTexts :
       (/\ GenReturn(j, out) /\ store[j] # NoRec
        /\ LacksAnchor(clean_latex_content(out)))
       => /\ pc'[j] = "done"
          /\ store'[j].status = "failed"
          /\ store'[j].error = ErrGeneratedInvalid
          /\ resultCache' = resultCache
          /\ files' = files
          /\ pdfCache' = pdfCache /\ pdfCache'[j] = NoPath]_vars

\* C19 witness: a job has failed on invalid generated text; there is no
\* cache entry for its tuple and no artifact pointer for it
C19_Witness ==
  \E j \in JobIds :
    /\ pc[j] = "done" /\ store[j] # NoRec
    /\ store[j].status = "failed" /\ store[j].error = ErrGeneratedInvalid
    /\ resultCache[RecordKey(store[j])] = NoResult
    /\ pdfCache[j] = NoPath

\* C20: artifacts of distinct jobs do not collide: a step that deletes
\* job b leaves in place the file that another job a's artifact pointer
\* names, whatever the two jobs' company labels.
C20_ArtifactsDoNotCollide ==
  [][\A a, b \in JobIds :
       (/\ a # b /\ store[b] # NoRec /\ store'[b] = NoRec
        /\ pdfCache[a] # NoPath /\ FileExists(files, pdfCache[a]))
       => FileExists(files', pdfCache[a])]_vars


\* C21: while the networked tier is in use and unreachable, every set
\* reports success and leaves its value in the in-process tier, and every
\* get of a key the caller has set, made before its ttl runs out, returns
\* that value.
C21_FallbackInvariant ==
  [][/\ \A k \in CacheKeys, v \in CacheValues, t \in Ttls :
          (redis_connected /\ ~redis.reachable /\ CacheSet(k, v, t))
          => /\ ret'.value = TRUE
             /\ k \in DOMAIN memory_cache'
             /\ memory_cache'[k].data = v
     /\ \A k \in CacheKeys :
          (/\ redis_connected /\ ~redis.reachable /\ CacheGet(k)
           /\ k \in DOMAIN caller /\ now < caller[k].expires_at)
          => ret'.value = caller[k].data]_vars

\* C22: whatever the networked tier does, no call of get, set or delete
\* ends by raising: each returns a value.
C22_NoCacheRaise ==
  ret.call \in {"get", "set", "delete"} => ~ret.raised

\* C22 witness: a set made while the networked tier was in use and
\* unreachable has returned False
C22_Witness ==
  /\ redis_connected /\ ~redis.reachable
  /\ ret.call = "set" /\ ~ret.raised /\ ret.value = FALSE

\* C23: a get of a key returns the value of the last set of that key that
\* the caller saw succeed, as long as that set's ttl has not run out and
\* the key was not deleted since; once the ttl has run out it returns
\* absent.
C23_CacheCorrectness ==
  [][\A k \in CacheKeys :
       (CacheGet(k) /\ k \in DOMAIN caller)
       => IF now < caller[k].expires_at
          THEN ret'.value = caller[k].data
          ELSE ret'.value = NoValue]_vars


\* C24: the key returned for the caller's tuple is the digest of that
\* tuple's joined string, the same on every call, and no tuple that
\* differs from the caller's in some field is joined to the same string.
C24_TupleSensitive ==
  ret.call = "generate_optimization_key"
  => /\ ret.value = generate_cache_key(CombinedOf(caller))
     /\ \A t \in KeyTuples : t # caller => CombinedOf(t) # ret.value[2]


\* C25: a validation of a produced text against its original reports
\* is_valid = false whenever the two declare different document classes or
\* a section of the original (names compared without case) is missing from
\* the produced text, and is_valid = true when the produced text has its
\* three anchors, the same class and every section of the original.
C25_ValidateTransform ==
  ret.call = "validate_optimization_result"
  => LET o == parse_latex(caller.original)
         p == parse_latex(caller.text)
         changed == o.document_class # p.document_class
         removed == SectionNames(o.sections) \ SectionNames(p.sections)
     IN /\ (changed \/ removed # {}) => ~ret.value.is_valid
        /\ (p.is_valid /\ ~changed /\ removed = {}) => ret.value.is_valid

\* the lines that declare a document class, with or without options
ClassDeclarations ==
  {"\\documentclass[11pt]{article}", "\\documentclass[11pt]{resume}",
   "\\documentclass{article}"}

\* C26: parsing a text reports is_valid = true exactly when the text has
\* a document class declaration (with or without options), a begin marker
\* and an end marker; every missing anchor is named by an error, and a
\* missing conventional section shows in the warnings only.
C26_ParseValidIffAnchors ==
  ret.call = "parse_latex"
  => LET t == caller.text
         has_class == Search(t, ClassDeclarations)
         has_begin == Search(t, {"\\begin{document}"})
         has_end == Search(t, {"\\end{document}"})
         Named(e) == \E i \in 1..Len(ret.value.errors) : ret.value.errors[i] = e
     IN /\ ret.value.is_valid <=> (has_class /\ has_begin /\ has_end)
        /\ ~has_class <=> Named("Missing \\documentclass declaration")
        /\ ~has_begin <=> Named("Missing \\begin{document}")
        /\ ~has_end <=> Named("Missing \\end{document}")
        /\ Len(ret.value.errors) <= 3

\* C27: cleaning the result of a cleaning changes nothing.
C27_CleanIdempotent ==
  ret.call = "clean_latex_content" => clean_lines(ret.value) = ret.value


\* C28: a compilation ends by raising only when no compiler was found on
\* the host; a run that ends any other way than with a plausible PDF is
\* answered with a result whose success flag is false.
C28_CompileThrowsOnlyWithoutCompiler ==
  ret.call = "compile_latex_to_pdf"
  => /\ ret.raised <=> installed = {}
     /\ (installed # {} /\ ret.run # "pdf") => ret.value.success = FALSE


\* C29: when a job's task returns from the compile step, the history
\* holds exactly one row for the job: completed when the compiler
\* returned the artifact, failed when it raised.
C29_OneHistoryRecord ==
  [][\A j \in JobIds, out \in {"ok", "raise"} :
       CompileReturn(j, out)
       => {h \in history' : h.optimization_id = j}
          = {[optimization_id |-> j,
              status |-> IF out = "ok" THEN "completed" ELSE "failed"]}]_vars


\* C30: when all the events tracked for a user are optimization_completed
\* events, the statistics read for that user report their number both as
\* total_optimizations and as total_events, whatever was tracked for the
\* other users.
C30_StatsCountCompleted ==
  ret.call = "get_user_stats"
  => LET mine == UserEvents(ret.value.user_email)
     IN CountType(mine, "optimization_completed") = Len(mine)
        => /\ ret.value.total_optimizations = Len(mine)
           /\ ret.value.total_events = Len(mine)


\* C31: the result cache changes only in a step in which a job's task
\* passes validation and moves on to the compile step; whenever a task is
\* at the compile step the entry under its key exists; and no step, the
\* return of the compiler included, removes an entry.
C31_CacheWriteBeforeCompile ==
  [][/\ resultCache' # resultCache
        => \E j \in JobIds : pc[j] = "gen" /\ pc'[j] = "compile"
     /\ \A j \in JobIds :
          pc'[j] = "compile" => resultCache'[KeyOf(req'[j])] # NoResult
     /\ \A k \in Keys : resultCache[k] # NoResult => resultCache'[k] # NoResult]_vars

\* C31 witness: the compiler raised for a job that missed the cache, and
\* the entry under the job's key is there
C31_Witness ==
  \E j \in JobIds :
    /\ pc[j] = "done" /\ pdf_error[j] # NoError
    /\ store[j] # NoRec /\ store[j].cached = "False"
    /\ resultCache[RecordKey(store[j])] # NoResult


\* C32: on a cache hit the submit handler itself sets the job to completed with
\* progress 100 and schedules the detached compilation of the cached document
\* (no compilation has run for the job yet); the step in which the detached
\* compilation returns or raises leaves the job's record, and so its status,
\* progress and error, exactly as it was.
C32_HitCompletesBeforeCompile ==
  [][\A j \in JobIds :
       /\ (pc[j] = "unused" /\ pc'[j] = "pdf_compile")
            => /\ store'[j].status = "completed"
               /\ store'[j].progress = 100
               /\ store'[j].cached = "True"
               /\ pdfCache'[j] = NoPath
       /\ (pc[j] = "unused" /\ store'[j] # NoRec /\ store'[j].cached = "True")
            => pc'[j] = "pdf_compile"
       /\ (pc[j] = "pdf_compile" /\ pc'[j] # "pdf_compile" /\ store[j] # NoRec)
            => store'[j] = store[j]]_vars

C32_Witness ==
  \E j \in JobIds :
    /\ pc[j] = "done"
    /\ store[j] # NoRec /\ store[j].cached = "True"
    /\ store[j].status = "completed" /\ store[j].progress = 100
    /\ pdfCache[j] = NoPath


\* ======================================================================
\* The fan-out of process_optimization_background: the resume-generation
\* call and the combined email/cover-letter call under asyncio.gather.
\* Two runs of the task are followed side by side on the same request text,
\* with the same answers of the generation service and of the compiler, and
\* with auxiliary flags chosen per run; each run has its own job record,
\* result cache and artifact.  The service object is
\*   [service |-> "gather", tex_content, llm_out, compile_out, flags,
\*    jstore, jpc, resume, aux, aux_error, results1, extras, rcache, pdf,
\*    trace, usage, tracked, on_disk, manual_compile, code].
Runs == {1, 2}

NoContent == "None"
ColdEmails == {NoContent, "cold email"}
CoverLetters == {NoContent, "cover letter"}

CompileAnswers == {"ok", "raise"}

tex_content == unit.tex_content
llm_out == unit.llm_out
compile_out == unit.compile_out
flags == unit.flags
jstore == unit.jstore
jpc == unit.jpc
resume == unit.resume
aux == unit.aux
aux_error == unit.aux_error
results1 == unit.results1
extras == unit.extras
rcache == unit.rcache
pdf == unit.pdf
trace == unit.trace

\* the usage metrics in the provider's response: absent, or token counts
NoUsage == [absent |-> "usage"]
ReportedUsage == [input_tokens |-> 3, cache_creation_input_tokens |-> 1,
                  cache_read_input_tokens |-> 1, output_tokens |-> 2]
Usages == {NoUsage, ReportedUsage}

\* whether the file registered in the path cache exists
on_disk == unit.on_disk
\* the key "manual_compile" of the job's record
manual_compile == unit.manual_compile
\* the status code of the last answer of an endpoint (0: none yet)
code == unit.code

\* what the provider reported for the resume-generation call
usage == unit.usage
\* the calls of track_token_usage made by each run, in order
tracked == unit.tracked

\* LLMService._call_anthropic: the text together with the reported usage
call_provider(text, u) == [optimized_tex |-> text, usage |-> u]

\* LLMService.optimize_resume: the dictionary it builds from the provider
\* call's result; it copies optimized_tex and adds statistics of its own
optimize_resume_result(res) ==
  [optimized_tex |-> res.optimized_tex, provider |-> Provider, model |-> Model]

\* llm_result.get('usage', {})
usage_data(llm_result) ==
  IF "usage" \in DOMAIN llm_result THEN llm_result.usage ELSE NoUsage

\* the arguments of track_token_usage
TokenCounts(u) ==
  [input_tokens |-> u.input_tokens + u.cache_creation_input_tokens
                      + u.cache_read_input_tokens,
   output_tokens |-> u.output_tokens]

\* "if request.generate_cold_email or request.generate_cover_letter"
AuxRequested(r) == flags[r].generate_cold_email \/ flags[r].generate_cover_letter

\* a progress update that creates the record when the id is not in the table
UpdateProgressCreating(st, r, p, m) ==
  [raised |-> FALSE,
   store |-> IF st[r] = NoRec
             THEN [st EXCEPT ![r] = [NewRecord(tex_content, SafeLabel) EXCEPT
                                       !.progress = p, !.message = m]]
             ELSE [st EXCEPT ![r].progress = p, ![r].message = m]]

\* optimization_status_store[optimization_id]["progress"] = p, then
\* ["message"] = m: indexing the table with a deleted id raises KeyError
UpdateProgress(st, r, p, m) ==
  IF st[r] = NoRec
  THEN [raised |-> TRUE, store |-> st]
  ELSE [raised |-> FALSE, store |-> [st EXCEPT ![r].progress = p, ![r].message = m]]

\* from the start of the task to the suspension in asyncio.gather: both
\* coroutines are handed to gather in the same step
FanStart(r) ==
  /\ unit.service = "gather"
  /\ jpc[r] = "start"
  /\ LET u == UpdateProgress(jstore, r, 40, "Calling LLM API...")
     IN IF u.raised
        THEN LET h == OuterExcept(u.store, r, ErrKeyError)
             IN unit' = [unit EXCEPT !.jstore = h.store,
                                     !.jpc = [jpc EXCEPT ![r] = h.pc]]
        ELSE unit' = [unit EXCEPT
               !.jstore = u.store,
               !.trace = [trace EXCEPT ![r] = Append(@, 40)],
               !.resume = [resume EXCEPT ![r] = "running"],
               !.aux = [aux EXCEPT ![r] = IF AuxRequested(r) THEN "running" ELSE "none"],
               !.jpc = [jpc EXCEPT ![r] = "gather"]]
  /\ UNCHANGED jobVars

\* llm_service.optimize_resume returns or raises
ResumeDone(r) ==
  /\ unit.service = "gather"
  /\ resume[r] = "running"
  /\ unit' = [unit EXCEPT
       !.resume = [resume EXCEPT ![r] = IF llm_out = LlmRaises THEN "raised"
                                        ELSE "returned"]]
  /\ UNCHANGED jobVars

\* an auxiliary call whose exception reaches the caller
AuxOnExceptionPropagates == "raised"

\* generate_email_and_cover_letter, "except Exception": return None, None
AuxOnException == "failed"

\* generate_email_and_cover_letter ends: its call failed (missing prompt or
\* an exception), or it returned what the two patterns extracted
AuxDone(r, failed, cold_email, cover_letter) ==
  /\ unit.service = "gather"
  /\ aux[r] = "running"
  /\ unit' = [unit EXCEPT
       !.aux = [aux EXCEPT ![r] = IF failed THEN AuxOnException ELSE "returned"],
       !.aux_error = [aux_error EXCEPT ![r] = failed],
       !.results1 = [results1 EXCEPT ![r] =
                       IF failed THEN <<NoContent, NoContent>>
                       ELSE <<cold_email, cover_letter>>]]
  /\ UNCHANGED jobVars

\* a gather that resumes its caller as soon as the first coroutine returned
GatherDoneFirstOnly(r) == resume[r] # "running"

\* asyncio.gather(*tasks): resumes the caller when every coroutine has
\* returned, or as soon as one of them raised
GatherDone(r) ==
  \/ resume[r] = "raised"
  \/ aux[r] = "raised"
  \/ resume[r] = "returned" /\ aux[r] # "running"

\* "cold_email_content and not request.generate_cold_email" and its twin
FilterRequested(r) ==
  [cold_email |-> IF flags[r].generate_cold_email THEN results1[r][1] ELSE NoContent,
   cover_letter |-> IF flags[r].generate_cover_letter THEN results1[r][2] ELSE NoContent]

\* a validation failure that ends the task without touching the record
MarkGeneratedInvalidSilent(st, r) == st

\* "if not validation_result['is_valid']": the job is failed before return
MarkGeneratedInvalid(st, r) ==
  [st EXCEPT ![r].status = "failed", ![r].error = ErrGeneratedInvalid]

\* from the return of gather to the suspension in the compiler
GatherReturn(r) ==
  /\ unit.service = "gather"
  /\ jpc[r] = "gather"
  /\ GatherDone(r)
  /\ IF resume[r] = "raised" \/ aux[r] = "raised"
     THEN LET h == OuterExcept(jstore, r, ErrLlm)
          IN unit' = [unit EXCEPT !.jstore = h.store,
                                  !.jpc = [jpc EXCEPT ![r] = h.pc]]
     ELSE LET t == clean_latex_content(llm_out)
              u70 == UpdateProgress(jstore, r, 70,
                       "LLM processing completed, cleaning and validating result...")
          IN IF u70.raised
             THEN LET h == OuterExcept(u70.store, r, ErrKeyError)
                  IN unit' = [unit EXCEPT !.jstore = h.store,
                                          !.jpc = [jpc EXCEPT ![r] = h.pc]]
             ELSE IF ~ValidateOptimizationIsValid(tex_content, t)
             THEN unit' = [unit EXCEPT
                    !.jstore = MarkGeneratedInvalid(u70.store, r),
                    !.trace = [trace EXCEPT ![r] = Append(@, 70)],
                    !.jpc = [jpc EXCEPT ![r] = "done"]]
             ELSE unit' = [unit EXCEPT
                    !.rcache = [rcache EXCEPT ![r] = EnhancedResult(t)],
                    !.extras = [extras EXCEPT ![r] = FilterRequested(r)],
                    !.jstore = UpdateProgress(u70.store, r, 95, "Generating PDF...").store,
                    !.trace = [trace EXCEPT ![r] = Append(Append(@, 70), 95)],
                    !.jpc = [jpc EXCEPT ![r] = "compile"]]
  /\ UNCHANGED jobVars

\* from the return of the compiler to the end of the task; the read of
\* start_time raises after the record was updated
FanCompileReturn(r) ==
  /\ unit.service = "gather"
  /\ jpc[r] = "compile"
  /\ LET t == clean_latex_content(llm_out)
         u == usage_data(optimize_resume_result(call_provider(llm_out, usage)))
         stu == IF compile_out = "ok"
                THEN [jstore EXCEPT ![r] = CompletedUpdate(jstore[r], t)]
                ELSE [jstore EXCEPT ![r] = FailedUpdate(jstore[r], r, t, ErrCompile)]
         h == IF jstore[r] = NoRec
              THEN (IF compile_out = "ok" THEN OuterExcept(jstore, r, ErrKeyError)
                    ELSE InnerExcept(jstore, r))
              ELSE IF StartTimeBound THEN [store |-> stu, pc |-> "done"]
              ELSE IF compile_out = "ok" THEN OuterExcept(stu, r, ErrNameStartTime)
              ELSE InnerExcept(stu, r)
     IN unit' = [unit EXCEPT
          !.pdf = [pdf EXCEPT ![r] = IF compile_out = "ok"
                                     THEN FinalPdfPath(SafeLabel)
                                     ELSE FailedTexPath(SafeLabel, r)],
          !.on_disk = [on_disk EXCEPT ![r] = TRUE],
          !.jstore = h.store,
          !.tracked = [tracked EXCEPT ![r] =
                         IF compile_out = "ok" /\ jstore[r] # NoRec /\ u # NoUsage
                         THEN Append(@, TokenCounts(u)) ELSE @],
          !.trace = [trace EXCEPT ![r] = IF jstore[r] = NoRec THEN @ ELSE Append(@, 100)],
          !.jpc = [jpc EXCEPT ![r] = h.pc]]
  /\ UNCHANGED jobVars

AuxFlags == [generate_cold_email : BOOLEAN, generate_cover_letter : BOOLEAN]

\* both runs as optimize_resume leaves them on a cache miss
FanInit ==
  /\ JobsConstructed
  /\ \E d \in {x \in Docs : ParseIsValid(x)}, o \in LlmTexts \cup {LlmRaises},
        c \in CompileAnswers, fl \in [Runs -> AuxFlags], u \in Usages :
       unit = [service |-> "gather", tex_content |-> d, llm_out |-> o,
               compile_out |-> c, flags |-> fl,
               jstore |-> [r \in Runs |->
                            [NewRecord(d, SafeLabel) EXCEPT
                               !.progress = 20,
                               !.message = "LaTeX validated, checking cache..."]],
               jpc |-> [r \in Runs |-> "start"],
               resume |-> [r \in Runs |-> "idle"],
               aux |-> [r \in Runs |-> "idle"],
               aux_error |-> [r \in Runs |-> FALSE],
               results1 |-> [r \in Runs |-> <<NoContent, NoContent>>],
               extras |-> [r \in Runs |-> [cold_email |-> NoContent,
                                           cover_letter |-> NoContent]],
               rcache |-> [r \in Runs |-> NoResult],
               pdf |-> [r \in Runs |-> NoPath],
               trace |-> [r \in Runs |-> <<20>>],
               usage |-> u, tracked |-> [r \in Runs |-> <<>>],
               on_disk |-> [r \in Runs |-> FALSE],
               manual_compile |-> [r \in Runs |-> FALSE],
               code |-> 0]

FanNext ==
  \E r \in Runs :
    \/ FanStart(r)
    \/ ResumeDone(r)
    \/ \E e \in ColdEmails, l \in CoverLetters : AuxDone(r, FALSE, e, l)
    \/ AuxDone(r, TRUE, NoContent, NoContent)
    \/ GatherReturn(r)
    \/ FanCompileReturn(r)

SpecFan == FanInit /\ [][FanNext]_vars

\* The event loop runs every coroutine that is ready, and every external
\* call (the generation service, the auxiliary call, the compiler) returns
\* or raises in the end; the job is not deleted.
FanFairness ==
  \A r \in Runs :
    /\ WF_vars(FanStart(r))
    /\ WF_vars(ResumeDone(r))
    /\ WF_vars(\E failed \in BOOLEAN, e \in ColdEmails, l \in CoverLetters :
                 AuxDone(r, failed, e, l))
    /\ WF_vars(GatherReturn(r))
    /\ WF_vars(FanCompileReturn(r))

SpecFanLive == FanInit /\ [][FanNext]_vars /\ FanFairness

\* ----------------------------------------------------------------------
\* The same task with the endpoints that act on a job in flight:
\* delete_optimization and a manual compile_latex request carrying the id.

\* delete_optimization: the record is removed and the registered file is
\* unlinked; the task of the job is not told
FanDelete(r) ==
  /\ unit.service = "gather"
  /\ IF jstore[r] = NoRec
     THEN unit' = [unit EXCEPT !.code = 404]
     ELSE unit' = [unit EXCEPT
            !.jstore = [jstore EXCEPT ![r] = NoRec],
            !.on_disk = [on_disk EXCEPT ![r] = FALSE],
            !.code = 200]
  /\ UNCHANGED jobVars

\* compile_latex with optimization_id = r: the text is validated and
\* compiled, the artifact is registered, and the record is marked only
\* "if compile_id in optimization_status_store"
FanManualCompile(r, doc, out) ==
  /\ unit.service = "gather"
  /\ IF ~ParseIsValid(doc)
     THEN unit' = [unit EXCEPT !.code = 400]
     ELSE IF out # "ok"
     THEN unit' = [unit EXCEPT !.code = 500]
     ELSE unit' = [unit EXCEPT
            !.pdf = [pdf EXCEPT ![r] = FinalPdfPath(SafeLabel)],
            !.on_disk = [on_disk EXCEPT ![r] = TRUE],
            !.manual_compile = [manual_compile EXCEPT ![r] = @ \/ jstore[r] # NoRec],
            !.code = 200]
  /\ UNCHANGED jobVars

\* get_optimization_status: the status code it answers with
GetStatusCode(r) == IF jstore[r] = NoRec THEN 404 ELSE 200

\* one request without auxiliary flags and one with both, no usage reported
DeleteInit ==
  /\ FanInit
  /\ unit.usage = NoUsage
  /\ ~AuxRequested(1)
  /\ unit.flags[2].generate_cold_email /\ unit.flags[2].generate_cover_letter

DeleteNext ==
  \/ FanNext
  \/ \E r \in Runs : FanDelete(r)
  \/ \E r \in Runs, doc \in Docs, out \in CompileAnswers : FanManualCompile(r, doc, out)

SpecDelete == DeleteInit /\ [][DeleteNext]_vars

\* C33: with an auxiliary flag set, the two calls are started in the same
\* step, and the job's progress is below 70, nothing is cached and no
\* compilation has started or finished until both calls have completed.
C33_JointAwait ==
  \A r \in Runs :
    (unit.service = "gather" /\ AuxRequested(r)) =>
      /\ (resume[r] = "idle") <=> (aux[r] = "idle")
      /\ (\/ jstore[r].progress >= 70
          \/ jpc[r] = "compile"
          \/ rcache[r] # NoResult
          \/ pdf[r] # NoPath)
           => (resume[r] = "returned" /\ aux[r] \in {"returned", "failed"})

C33_Witness ==
  /\ unit.service = "gather"
  /\ \E r \in Runs :
       /\ AuxRequested(r) /\ jpc[r] = "compile"
       /\ jstore[r].progress = 95 /\ rcache[r] # NoResult
       /\ aux[r] = "returned" /\ results1[r] = <<"cold email", "cover letter">>

\* what a caller can observe of a finished run: status, error, the progress
\* values in order, the cache entry, and which artifact was registered
Outcome(r) ==
  [status |-> jstore[r].status, error |-> jstore[r].error,
   progress |-> trace[r], cache |-> rcache[r],
   pdf |-> pdf[r] = FinalPdfPath(SafeLabel), tex |-> pdf[r] # NoPath]

C34_ProbedAtMostOnce ==
  \A c \in CompilerNames : probes[c] <= 1


\* ======================================================================
\* PDFGenerator.compile_latex_to_pdf on its working directory: two
\* invocations for the same optimization id, the compile step of the job's
\* task and a manual /compile-latex request that carries the id.  The
\* compiler is already selected.  The service object is
\*   [service |-> "workdir", company_name, work_dir, work_files, out_files,
\*    cpc, result].
Invocations == {"task", "manual"}
CompanyNames == {"a", "b"}

\* each invocation compiles its own text, named after the invocation
SourceOf(i) == <<"source of", i>>
NoArtifact == <<>>

\* whether output_dir/compile_<optimization_id> exists
work_dir == unit.work_dir
\* the files inside the working directory
work_files == unit.work_files
\* the files directly in output_dir
out_files == unit.out_files
cpc == unit.cpc
result == unit.result

\* tex_filename and pdf_filename: they depend on the company name only
TexFilename(i) == <<unit.company_name[i], "_resume.tex">>
PdfFilename(i) == <<unit.company_name[i], "_resume.pdf">>

\* from the call to the suspension in the compiler subprocess: mkdir with
\* exist_ok, then the source file is written
CompileBegin(i) ==
  /\ unit.service = "workdir"
  /\ cpc[i] = "idle"
  /\ unit' = [unit EXCEPT
       !.work_dir = TRUE,
       !.work_files = WriteFile(work_files, TexFilename(i), SourceOf(i)),
       !.cpc = [cpc EXCEPT ![i] = "compiling"]]
  /\ UNCHANGED jobVars

\* the compiler subprocess of invocation i: it reads the source file by its
\* path and writes the PDF next to it; it exits with an error when the
\* working directory or the source file is gone, or on its own account
CompilerRun(i, exit_ok) ==
  /\ unit.service = "workdir"
  /\ cpc[i] = "compiling"
  /\ IF exit_ok /\ work_dir /\ FileExists(work_files, TexFilename(i))
     THEN unit' = [unit EXCEPT
            !.work_files = WriteFile(work_files, PdfFilename(i),
                                     work_files[TexFilename(i)]),
            !.cpc = [cpc EXCEPT ![i] = "ran"]]
     ELSE unit' = [unit EXCEPT !.cpc = [cpc EXCEPT ![i] = "exit_code"]]
  /\ UNCHANGED jobVars

\* the finally clause: rmtree when the directory exists; a failure of rmtree
\* is logged and the directory stays
Cleanup(exists, rmtree_ok) == exists /\ ~rmtree_ok

\* from the return of the subprocess to the end of the call: the PDF is
\* moved to output_dir/pdf_filename and the working directory is cleaned up
CompileEnd(i, rmtree_ok) ==
  /\ unit.service = "workdir"
  /\ cpc[i] \in {"ran", "exit_code"}
  /\ LET built == /\ cpc[i] = "ran"
                  /\ work_dir
                  /\ FileExists(work_files, PdfFilename(i))
         moved == IF built
                  THEN WriteFile(out_files, PdfFilename(i), work_files[PdfFilename(i)])
                  ELSE out_files
         left == IF built THEN Unlink(work_files, PdfFilename(i)) ELSE work_files
         stays == Cleanup(work_dir, rmtree_ok)
     IN unit' = [unit EXCEPT
          !.out_files = moved,
          !.work_dir = stays,
          !.work_files = IF stays THEN left ELSE << >>,
          !.result = [result EXCEPT ![i] =
                        IF built THEN moved[PdfFilename(i)] ELSE NoArtifact],
          !.cpc = [cpc EXCEPT ![i] = IF built THEN "returned" ELSE "raised"]]
  /\ UNCHANGED jobVars

WorkdirInit ==
  /\ JobsConstructed
  /\ \E n \in [Invocations -> CompanyNames] :
       unit = [service |-> "workdir", company_name |-> n,
               work_dir |-> FALSE, work_files |-> << >>, out_files |-> << >>,
               cpc |-> [i \in Invocations |-> "idle"],
               result |-> [i \in Invocations |-> NoArtifact]]

WorkdirNext ==
  \E i \in Invocations :
    \/ CompileBegin(i)
    \/ \E exit_ok \in BOOLEAN : CompilerRun(i, exit_ok)
    \/ \E rmtree_ok \in BOOLEAN : CompileEnd(i, rmtree_ok)

SpecWorkdir == WorkdirInit /\ [][WorkdirNext]_vars

\* C35: whenever a compile invocation returns or raises, the working
\* directory of the job does not exist afterwards.
C35_WorkdirRemoved ==
  [][\A i \in Invocations, rmtree_ok \in BOOLEAN :
       CompileEnd(i, rmtree_ok) => ~work_dir']_vars

\* C39: two compile invocations for the same optimization id do not
\* interfere: while an invocation is between its start and its end the
\* working directory exists and holds its own source file, and an invocation
\* that returns an artifact returns the one built from its own source.
C39_NoInterference ==
  unit.service = "workdir" =>
    \A i \in Invocations :
      /\ cpc[i] = "compiling"
           => /\ work_dir
              /\ FileExists(work_files, TexFilename(i))
              /\ work_files[TexFilename(i)] = SourceOf(i)
      /\ cpc[i] = "returned" => result[i] = SourceOf(i)

\* C36: when the provider reported usage metrics and the run took the
\* success path (the compiler returned the artifact), track_token_usage was
\* called exactly once, with the token counts derived from the usage.
C36_UsageForwardedOnce ==
  unit.service = "gather" =>
    \A r \in Runs :
      (jpc[r] = "done" /\ pdf[r] = FinalPdfPath(SafeLabel) /\ usage # NoUsage)
        => tracked[r] = <<TokenCounts(usage)>>

\* C38: once the record of a job is gone, no step of the job's task and no
\* manual compile request brings it back: the status endpoint answers 404
\* in every later state.
C38_DeletedStaysDeleted ==
  [][\A r \in Runs : GetStatusCode(r) = 404 => GetStatusCode(r)' = 404]_vars

C38_Witness ==
  /\ unit.service = "gather"
  /\ \E r \in Runs :
       /\ jstore[r] = NoRec
       /\ jpc[r] = "crashed"
       /\ pdf[r] = FinalPdfPath(SafeLabel) /\ ~manual_compile[r]
       /\ trace[r] = <<20, 40>>

\* C37: every job that the submission left running reaches the status
\* completed or failed, provided its external calls return or raise and it
\* is not deleted.
C37_EventuallyTerminal ==
  \A r \in Runs :
    (jstore[r].status = "processing") ~> (jstore[r].status \in {"completed", "failed"})

C37_Witness ==
  /\ unit.service = "gather"
  /\ \E r \in Runs :
       /\ jpc[r] = "done" /\ trace[r] = <<20, 40, 70>>
       /\ jstore[r].status = "failed" /\ jstore[r].error = ErrGeneratedInvalid

====
